---- MODULE Spec2Model ----
(***************************************************************************)
(* NCRTC train feed: the enrichment pipeline of main.py (process_payload,  *)
(* determine_direction, get_train_details_from_db over active_train_cache),*)
(* the simulator of script.py (NCRTCTrain, SimulationManager), the         *)
(* broadcast side of main.py (ConnectionManager, run_simulation_loop) and  *)
(* the proxy sessions of main.py (/ws/live-trains) over the shared cache.  *)
(*                                                                         *)
(* Units.  Line and optical positions of an event are counted in units of  *)
(* 1/20 mm (Meter units to the metre), the coarsest grid that holds the    *)
(* train length 114.85715 m exactly.  A simulated train's internal         *)
(* position is counted in mm and its speed in mm/s; elapsed time is        *)
(* counted in tenths of a second.                                          *)
(***************************************************************************)
EXTENDS Integers, Sequences, FiniteSets, TLC

VARIABLES
    active_train_cache,  \* main.py:97   journeyId -> cache entry
    raw_payload,         \* argument of the last process_payload() call
    response,            \* what the last process_payload() call returned
    resolver_log,        \* get_train_details_from_db calls of the last call
    ncrtc_train,         \* one NCRTCTrain driven on its own
    sensor_event,        \* what its last get_payload() returned
    active_trains,       \* script.py:135  SimulationManager.active_trains
    next_journey,        \* journey ids handed out so far, plus one
    payloads,            \* what the last tick() returned
    active_connections,  \* main.py:32   ConnectionManager.active_connections
    endpoint,            \* where each websocket's endpoint handler stands
    peer,                \* whether each websocket's client is still there
    sim_loop,            \* where run_simulation_loop stands, and its broadcast
    proxy,               \* main.py:249  each /ws/live-trains session
    feed                 \* the messages the upstream publisher has sent

pipeVars == <<active_train_cache, raw_payload, response, resolver_log>>

trainVars == <<ncrtc_train, sensor_event>>

fleetVars == <<active_trains, next_journey, payloads>>

netVars == <<active_connections, endpoint, peer, sim_loop>>

proxyVars == <<proxy, feed>>

vars == <<pipeVars, trainVars, fleetVars, netVars, proxyVars>>

---------------------------------------------------------------------------
\* Arithmetic helpers

Abs(x) == IF x < 0 THEN -x ELSE x

Min(a, b) == IF a < b THEN a ELSE b

Max(a, b) == IF a > b THEN a ELSE b

\* Python round(): x to the nearest multiple of g, a tie going to the even
\* multiple.
RoundTo(x, g) ==
    LET q == x \div g
        r == x % g
    IN  IF 2 * r < g THEN q * g
        ELSE IF 2 * r > g THEN (q + 1) * g
        ELSE IF q % 2 = 0 THEN q * g ELSE (q + 1) * g

\* dict.get(key, default)
Get(d, key, default) == IF key \in DOMAIN d THEN d[key] ELSE default

Range(s) == {s[i] : i \in DOMAIN s}

Meter == 20 * 1000

---------------------------------------------------------------------------
\* Enrichment pipeline: inputs

MaxBatch == 2

JourneyIds == {"J1", "J2"}

\* a missing or empty journeyId
NoJourney == ""

\* NCRTCTrain.length, 114.85715 m
TRAIN_LENGTH == 2297143

\* One sensor event; a "length" of 0 stands for an event without the key.
Event(j_id, head, tail, length) ==
    [journeyId |-> j_id, headLinePosition |-> head, tailLinePosition |-> tail,
     length |-> length, speed |-> 30000]

\* J1 at 1000 m with head and tail level and the length of a simulated train;
\* J1 at 1002 m with the tail exactly 10 m ahead and a length at the coach
\* threshold; J2 with the tail a train length behind and no length; one
\* event without a journeyId.
SensorEvents ==
    { Event("J1", 1000 * Meter, 1000 * Meter, TRAIN_LENGTH),
      Event("J1", 1002 * Meter, 1012 * Meter, 50 * Meter),
      Event("J2", 1002 * Meter, 1002 * Meter - TRAIN_LENGTH, 0),
      Event(NoJourney, 1000 * Meter, 1000 * Meter, TRAIN_LENGTH) }

Batches == UNION {[1..n -> SensorEvents] : n \in 0..MaxBatch}

\* A message with a "trains" list, or one without the key.
RawPayloads == {[trains |-> b] : b \in Batches} \cup {[heartbeat |-> TRUE]}

\* What the relational store does in one lookup: an error before a query is
\* made or in a query, no station at the position, no train due, a train due.
StoreErrors == {"pool_error", "train_query_error"}

StoreOutcomes == StoreErrors \cup {"no_station", "no_match", "match"}

\* The timetable row a successful lookup finds.
TimetableRow == [train_no |-> "R1", name |-> "Namo Bharat", scheduled_station |-> "A21"]

---------------------------------------------------------------------------
\* get_train_details_from_db

\* The try body: exc is TRUE when the store raises.
LookupBody(outcome) ==
    IF outcome \in StoreErrors THEN [exc |-> TRUE, ret |-> [train_no |-> "", name |-> ""]]
    ELSE IF outcome = "no_station" THEN
        [exc |-> FALSE, ret |-> [train_no |-> "Unknown", name |-> "N/A"]]
    ELSE IF outcome = "match" THEN
        [exc |-> FALSE,
         ret |-> [train_no |-> TimetableRow.train_no, name |-> TimetableRow.name,
                  scheduled_station |-> TimetableRow.scheduled_station]]
    ELSE [exc |-> FALSE, ret |-> [train_no |-> "T-Unknown", name |-> "N/A"]]

SentinelIdentity == [train_no |-> "N/A", name |-> "N/A", scheduled_station |-> "N/A"]

\* A store error escapes the lookup.
get_train_details_uncaught(outcome) == LookupBody(outcome)

\* The whole function: except Exception turns a raise into the sentinel.
get_train_details_from_db(outcome) ==
    LET r == LookupBody(outcome)
    IN  IF r.exc THEN [exc |-> FALSE, ret |-> SentinelIdentity] ELSE r

---------------------------------------------------------------------------
\* determine_direction

GeometryMargin == 10 * Meter

HistoryMargin == Meter \div 2

\* The geometry test with the margin dropped.
determine_direction_nomargin(cache, j_id, current_meters, head_meters, tail_meters) ==
    IF head_meters > tail_meters THEN "FORWARD"
    ELSE IF head_meters < tail_meters THEN "BACKWARD"
    ELSE IF j_id \in DOMAIN cache THEN
        LET last_pos == cache[j_id].last_pos
        IN  IF current_meters > last_pos + HistoryMargin THEN "FORWARD"
            ELSE IF current_meters < last_pos - HistoryMargin THEN "BACKWARD"
            ELSE "STOP"
    ELSE "STOP"

determine_direction(cache, j_id, current_meters, head_meters, tail_meters) ==
    IF head_meters > tail_meters + GeometryMargin THEN "FORWARD"
    ELSE IF head_meters < tail_meters - GeometryMargin THEN "BACKWARD"
    ELSE IF j_id \in DOMAIN cache THEN
        LET last_pos == cache[j_id].last_pos
        IN  IF current_meters > last_pos + HistoryMargin THEN "FORWARD"
            ELSE IF current_meters < last_pos - HistoryMargin THEN "BACKWARD"
            ELSE IF Abs(current_meters - last_pos) <= HistoryMargin THEN "STOP"
            ELSE "STOP"
    ELSE "STOP"

---------------------------------------------------------------------------
\* process_payload

\* An event without a journeyId is processed like any other.
KeepsEveryEvent(train) == FALSE

\* if not j_id: continue
HasNoJourneyId(train) == train.journeyId = NoJourney

\* Every event is taken for a first sighting.
AlwaysFirstSighting(cache, j_id) == TRUE

\* j_id not in active_train_cache
NotInCache(cache, j_id) == j_id \notin DOMAIN cache

\* round(current_meters / 1000, 2), in hundredths of a km
CurrentKm(current_meters) == RoundTo(current_meters, 10 * Meter) \div (10 * Meter)

\* The entry stored on a first sighting.
NewEntry(train_details, train, current_meters, direction_status) ==
    [train_no |-> train_details.train_no,
     name |-> train_details.name,
     last_pos |-> current_meters,
     direction |-> direction_status,
     scheduled_station |-> Get(train_details, "scheduled_station", "N/A"),
     train_length |-> train.length,
     coach_count |-> IF train.length > 50 * Meter THEN 6 ELSE 3]

\* The update takes the coach count anew, as for a train without a length.
UpdatedEntryRecounted(entry, current_meters, direction_status) ==
    [entry EXCEPT !.last_pos = current_meters, !.direction = direction_status,
                  !.coach_count = 3]

\* The update of an entry already there.
UpdatedEntry(entry, current_meters, direction_status) ==
    [entry EXCEPT !.last_pos = current_meters, !.direction = direction_status]

EnrichedTrain(cache_data, train, direction_status) ==
    [train_id |-> cache_data.train_no,
     train_name |-> cache_data.name,
     journey_id |-> train.journeyId,
     live_status |->
        [speed |-> train.speed,
         position_km |-> CurrentKm(train.headLinePosition),
         direction |-> direction_status,
         is_moving_forward |-> (direction_status = "FORWARD"),
         next_station |-> cache_data.scheduled_station,
         train_length_meters |-> cache_data.train_length,
         coach_count |-> cache_data.coach_count],
     visualization |-> [position_meters |-> train.headLinePosition]]

\* A call in progress: the cache, the lookups made, the records collected,
\* and whether an exception has left the function.
StartRun(cache) == [cache |-> cache, log |-> <<>>, out |-> <<>>, raised |-> FALSE]

\* The pass with the entry of a cached journey overwritten before the
\* direction is worked out.
ProcessTrainUpdateFirst(run, train, outcome) ==
    LET j_id == train.journeyId
        current_meters == train.headLinePosition
        moved == IF NotInCache(run.cache, j_id) THEN run.cache
                 ELSE [run.cache EXCEPT ![j_id].last_pos = current_meters]
        direction_status ==
            determine_direction(moved, j_id, current_meters,
                                train.headLinePosition, train.tailLinePosition)
    IN  IF NotInCache(run.cache, j_id) THEN
            LET res == get_train_details_from_db(outcome)
                entry == NewEntry(res.ret, train, current_meters, direction_status)
            IN  [cache |-> [k \in DOMAIN run.cache \cup {j_id} |->
                                IF k = j_id THEN entry ELSE run.cache[k]],
                 log |-> Append(run.log, [journey |-> j_id,
                                          current_km |-> CurrentKm(current_meters),
                                          outcome |-> outcome]),
                 out |-> Append(run.out, EnrichedTrain(entry, train, direction_status)),
                 raised |-> FALSE]
        ELSE
            LET entry == UpdatedEntry(run.cache[j_id], current_meters, direction_status)
            IN  [run EXCEPT !.cache[j_id] = entry,
                            !.out = Append(@, EnrichedTrain(entry, train, direction_status))]

\* One pass of the loop body for a train that has a journeyId; outcome is
\* what the store does if this pass looks the train up.
ProcessTrain(run, train, outcome) ==
    LET j_id == train.journeyId
        current_meters == train.headLinePosition
        direction_status ==
            determine_direction(run.cache, j_id, current_meters,
                                train.headLinePosition, train.tailLinePosition)
    IN  IF NotInCache(run.cache, j_id) THEN
            LET res == get_train_details_from_db(outcome)
                entry == NewEntry(res.ret, train, current_meters, direction_status)
                logged == Append(run.log, [journey |-> j_id,
                                           current_km |-> CurrentKm(current_meters),
                                           outcome |-> outcome])
            IN  IF res.exc THEN [run EXCEPT !.log = logged, !.raised = TRUE]
                ELSE [cache |-> [k \in DOMAIN run.cache \cup {j_id} |->
                                    IF k = j_id THEN entry ELSE run.cache[k]],
                      log |-> logged,
                      out |-> Append(run.out, EnrichedTrain(entry, train, direction_status)),
                      raised |-> FALSE]
        ELSE
            LET entry == UpdatedEntry(run.cache[j_id], current_meters, direction_status)
            IN  [run EXCEPT !.cache[j_id] = entry,
                            !.out = Append(@, EnrichedTrain(entry, train, direction_status))]

\* The runs the loop can end in from train i on, one for each way the store
\* can answer the lookups made.
RECURSIVE LoopFrom(_, _, _)
LoopFrom(run, train_list, i) ==
    IF run.raised \/ i > Len(train_list) THEN {run}
    ELSE IF HasNoJourneyId(train_list[i]) THEN LoopFrom(run, train_list, i + 1)
    ELSE IF NotInCache(run.cache, train_list[i].journeyId) THEN
        UNION { LoopFrom(ProcessTrain(run, train_list[i], o), train_list, i + 1) :
                o \in StoreOutcomes }
    ELSE LoopFrom(ProcessTrain(run, train_list[i], "match"), train_list, i + 1)

\* process_payload(raw): every run it can end in.
process_payload(cache, raw) ==
    LET train_list == Get(raw, "trains", <<>>)
    IN  IF train_list = <<>> THEN {StartRun(cache)}
        ELSE LoopFrom(StartRun(cache), train_list, 1)

NoResponse == [status |-> "none", active_trains |-> <<>>]

\* One process_payload() call, start to return, with no other call overlapping.
ProcessPayload ==
    \E raw \in RawPayloads :
        \E run \in process_payload(active_train_cache, raw) :
            /\ raw_payload' = raw
            /\ active_train_cache' = run.cache
            /\ resolver_log' = run.log
            /\ response' = IF run.raised
                            THEN [status |-> "raised", active_trains |-> <<>>]
                            ELSE [status |-> "returned", active_trains |-> run.out]
            /\ UNCHANGED <<trainVars, fleetVars, netVars, proxyVars>>

IdlePipeline ==
    /\ active_train_cache = <<>>
    /\ raw_payload = [heartbeat |-> TRUE]
    /\ response = NoResponse
    /\ resolver_log = <<>>

---------------------------------------------------------------------------
\* script.py: NCRTCTrain

TRACK_LENGTH_METERS == 82150

\* The track length in mm and in event units.
TrackMm == TRACK_LENGTH_METERS * 1000

TrackUnits == TRACK_LENGTH_METERS * Meter

\* random.uniform(28.0, 42.0): the ends of the range, in mm/s
TargetSpeeds == {28000, 42000}

\* random.uniform(-0.5, 0.5): the ends of the range, in mm/s
SpeedNoise == {-500, 500}

\* NCRTCTrain(): direction is 1 or -1, speed the target speed's magnitude.
NCRTCTrain(journey_id, direction, speed) ==
    [journey_id |-> journey_id,
     direction |-> direction,
     current_pos_meters |-> IF direction = 1 THEN 0 ELSE TrackMm,
     target_speed |-> IF direction = 1 THEN speed ELSE -speed,
     current_speed |-> 0,
     is_finished |-> FALSE]

\* The speed is updated and the train is left where it was.
update_physics_stalled(t, time_delta, noise) ==
    [t EXCEPT !.current_speed =
                  IF Abs(t.current_speed) < Abs(t.target_speed)
                  THEN t.current_speed + 200 * t.direction * time_delta
                  ELSE t.current_speed]

\* update_physics() after time_delta tenths of a second, with the noise drawn:
\* 2.0 m/s^2 is 200 mm/s per tenth of a second, and a speed that is a
\* multiple of 10 mm/s covers a whole number of mm in a tenth of a second.
update_physics(t, time_delta, noise) ==
    LET current_speed ==
            IF Abs(t.current_speed) < Abs(t.target_speed)
            THEN t.current_speed + 200 * t.direction * time_delta
            ELSE t.current_speed
        live_speed == current_speed + noise
        distance_moved == (live_speed \div 10) * time_delta
        pos == t.current_pos_meters + distance_moved
    IN  [t EXCEPT !.current_speed = current_speed,
                  !.current_pos_meters = pos,
                  !.is_finished = \/ t.is_finished
                                  \/ t.direction = 1 /\ pos >= TrackMm
                                  \/ t.direction = -1 /\ pos <= 0]

\* What update_physics() returns: abs(live_speed).
LiveSpeed(t, time_delta, noise) ==
    Abs(update_physics(t, time_delta, noise).current_speed + noise)

\* A clamp that lets every value through.
ClampNothing(x) == x

\* max(0, min(TRACK_LENGTH_METERS, x)), in event units
Clamp(x) == Max(0, Min(TrackUnits, x))

\* A position in mm as event units.  Positions further than 200 m off the
\* track are brought to 200 m off it first, so that the product fits the
\* 32-bit integers of TLC; the clamp cuts them to the track end either way.
ToUnits(pos_mm) == 20 * Max(-200000, Min(TrackMm + 200000, pos_mm))

\* round(x, 2) and round(x, 3) of a position in event units
Round2(x) == RoundTo(x, Meter \div 100)

Round3(x) == RoundTo(x, Meter \div 1000)

\* round((head + tail) / 2, 3): head + tail rounded to 2 mm, halved; the sum
\* is taken in multiples g of 2 mm plus remainders, and halved before it is
\* put together, so that it fits the 32-bit integers of TLC.
RoundedMidpoint(head, tail) ==
    LET g == 2 * (Meter \div 1000)
        q == (head \div g) + (tail \div g)
        r == (head % g) + (tail % g)
        p == q % 2
    IN  (q - p) * (g \div 2) + RoundTo(p * g + r, g) \div 2

\* get_payload() on a train that update_physics() has moved; speed_abs is
\* what update_physics() returned.
Payload(t, speed_abs) ==
    LET head_opt == Clamp(ToUnits(t.current_pos_meters))
        tail_opt == Clamp(ToUnits(t.current_pos_meters) - t.direction * TRAIN_LENGTH)
        left_opt == Min(head_opt, tail_opt)
        right_opt == Max(head_opt, tail_opt)
    IN  [journeyId |-> t.journey_id,
         length |-> TRAIN_LENGTH,
         speed |-> speed_abs,
         leftOpticalPosition |-> Round2(left_opt),
         rightOpticalPosition |-> Round2(right_opt),
         headOpticalPosition |-> Round2(head_opt),
         headLinePosition |-> Round3(head_opt),
         tailOpticalPosition |-> Round2(tail_opt),
         tailLinePosition |-> Round3(tail_opt),
         linePosition |-> RoundedMidpoint(head_opt, tail_opt)]

get_payload(t, time_delta, noise) ==
    Payload(update_physics(t, time_delta, noise), LiveSpeed(t, time_delta, noise))

---------------------------------------------------------------------------
\* One ncrtc_train on its own: constructed, then get_payload() until it has
\* finished, as tick() calls it.

\* Elapsed time between two calls, in tenths of a second: 60 s, 200 s
TrainDeltas == {600, 2000}

NoEvent == [journeyId |-> NoJourney]

IdleTrain ==
    /\ ncrtc_train = NCRTCTrain("T", 1, 28000)
    /\ sensor_event = NoEvent

GetPayload ==
    /\ ~ncrtc_train.is_finished
    /\ \E time_delta \in TrainDeltas, noise \in SpeedNoise :
          /\ ncrtc_train' = update_physics(ncrtc_train, time_delta, noise)
          /\ sensor_event' = get_payload(ncrtc_train, time_delta, noise)
    /\ UNCHANGED <<pipeVars, fleetVars, netVars, proxyVars>>

---------------------------------------------------------------------------
\* script.py: SimulationManager

\* tick(): len(self.active_trains) < 4
MAX_ACTIVE == 4

\* Journey ids are handed out in order, MaxJourneys of them at most.
MaxJourneys == 5

\* Elapsed time between two ticks, in tenths of a second: 100 s, 250 s
TickDeltas == {1000, 2500}

\* The noise drawn in one tick: the upper end of random.uniform(-0.5, 0.5),
\* in mm/s.
TickNoise == {500}

\* What tick() draws for the spawn: random() >= 0.05, or random() < 0.05 and
\* the direction and target speed NCRTCTrain() then draws.
NoSpawn == [roll |-> FALSE, direction |-> 1, speed |-> 28000]

SpawnDraws == {NoSpawn} \cup [roll : {TRUE}, direction : {1, -1}, speed : {28000}]

\* The spawn test without the limit.
MaySpawnAlways(fleet) == TRUE

\* len(self.active_trains) < 4
MaySpawn(fleet) == Len(fleet) < MAX_ACTIVE

\* Step 1 of tick(): the fleet after the spawn; roll is random() < 0.05.
AfterSpawn(fleet, roll, journey_id, direction, speed) ==
    IF MaySpawn(fleet) /\ roll
    THEN Append(fleet, NCRTCTrain(journey_id, direction, speed))
    ELSE fleet

\* Elapsed time on train i's clock: a train constructed in this tick is
\* advanced at once, no tenth of a second after its construction.
ElapsedFor(fleet, spawned, i, time_delta) ==
    IF i > Len(fleet) /\ spawned THEN 0 ELSE time_delta

\* Finished trains are dropped at once, in the tick that finishes them.
CleanupEager(before, after) ==
    SelectSeq(after, LAMBDA t : ~t.is_finished)

\* Step 3 of tick(): the trains that were found finished in step 2, that is
\* before they were advanced, are removed; before and after are the fleet
\* as step 2 found it and as step 2 left it.
Cleanup(before, after) ==
    LET kept == {i \in DOMAIN before : ~before[i].is_finished}
        Pick[i \in 0..Len(after)] ==
            IF i = 0 THEN <<>>
            ELSE IF i \in kept THEN Append(Pick[i - 1], after[i]) ELSE Pick[i - 1]
    IN  Pick[Len(after)]

\* Every train of the list gives an event, the finished ones as well.
CollectedAll(fleet, elapsed, noise) ==
    [i \in DOMAIN fleet |-> get_payload(fleet[i], elapsed[i], noise[i])]

\* Step 2 of tick(): each train not yet finished is advanced and gives its
\* event.
Advanced(fleet, elapsed, noise) ==
    [i \in DOMAIN fleet |->
        IF fleet[i].is_finished THEN fleet[i]
        ELSE update_physics(fleet[i], elapsed[i], noise[i])]

Collected(fleet, elapsed, noise) ==
    LET Pick[i \in 0..Len(fleet)] ==
            IF i = 0 THEN <<>>
            ELSE IF fleet[i].is_finished THEN Pick[i - 1]
            ELSE Append(Pick[i - 1], get_payload(fleet[i], elapsed[i], noise[i]))
    IN  Pick[Len(fleet)]

\* tick() on the fleet given: draw is what the spawn test and NCRTCTrain()
\* draw, journey_id the id a new train takes, n the noise; what it returns,
\* the fleet it leaves and whether it has spawned a train.
tick(fleet_before, journey_id, draw, time_delta, n) ==
    LET fleet == AfterSpawn(fleet_before, draw.roll, journey_id,
                            draw.direction, draw.speed)
        spawned == Len(fleet) > Len(fleet_before)
        elapsed == [i \in DOMAIN fleet |->
                      ElapsedFor(fleet_before, spawned, i, time_delta)]
        noise == [i \in DOMAIN fleet |-> n]
    IN  [payloads |-> Collected(fleet, elapsed, noise),
         active_trains |-> Cleanup(fleet, Advanced(fleet, elapsed, noise)),
         spawned |-> spawned]

\* One tick() call, its random draws and the elapsed time taken from the
\* sets given.  The trains of one tick share the draw of the noise.
TickStep(Draws, Deltas, Noises) ==
    \E draw \in Draws, time_delta \in Deltas, n \in Noises :
        LET fresh == draw.roll /\ next_journey <= MaxJourneys
            r == tick(active_trains, next_journey, [draw EXCEPT !.roll = fresh],
                      time_delta, n)
        IN  /\ payloads' = r.payloads
            /\ active_trains' = r.active_trains
            /\ next_journey' = IF r.spawned THEN next_journey + 1 ELSE next_journey

Tick ==
    /\ TickStep(SpawnDraws, TickDeltas, TickNoise)
    /\ UNCHANGED <<pipeVars, trainVars, netVars, proxyVars>>

IdleFleet ==
    /\ active_trains = <<>>
    /\ next_journey = 1
    /\ payloads = <<>>

---------------------------------------------------------------------------
\* main.py: ConnectionManager, run_simulation_loop and the endpoint
\* /trainJourneyEventPublisher/train-journey-events

MaxSockets == 3

Sockets == 1..MaxSockets

\* list.remove(): the list without the first occurrence of w
Removed(conns, w) ==
    LET i == CHOOSE k \in DOMAIN conns :
                 conns[k] = w /\ \A m \in 1..(k - 1) : conns[m] # w
    IN  [k \in 1..(Len(conns) - 1) |-> IF k < i THEN conns[k] ELSE conns[k + 1]]

\* ConnectionManager.disconnect(): raised is TRUE when list.remove() raises
\* ValueError, the websocket not being in the list.
disconnect(conns, w) ==
    IF w \in Range(conns) THEN [conns |-> Removed(conns, w), raised |-> FALSE]
    ELSE [conns |-> conns, raised |-> TRUE]

\* Whether send_text() can raise: it does not while the client is there;
\* once the client is gone it raises, or the text is still buffered.
SendMayRaise(w) == IF peer[w] = "gone" THEN {TRUE, FALSE} ELSE {FALSE}

SleepingLoop == [pc |-> "sleeping", snapshot |-> <<>>, next |-> 1, failed |-> {}]

\* One pass of broadcast()'s for loop, over snapshot[next]; send_raised is
\* whether send_text() raised.  After the last pass broadcast() returns and
\* the driver goes to sleep; a ValueError out of disconnect() leaves
\* broadcast() and run_simulation_loop(), which ends the task.
BroadcastPass(conns, lp, send_raised) ==
    LET w == lp.snapshot[lp.next]
        last == lp.next = Len(lp.snapshot)
        on == [lp EXCEPT !.next = @ + 1, !.pc = IF last THEN "sleeping" ELSE "broadcast"]
        gone == disconnect(conns, w)
    IN  IF ~send_raised THEN [conns |-> conns, loop |-> on]
        ELSE IF gone.raised
        THEN [conns |-> conns,
              loop |-> [lp EXCEPT !.next = @ + 1, !.pc = "dead", !.failed = @ \cup {w}]]
        ELSE [conns |-> gone.conns, loop |-> [on EXCEPT !.failed = @ \cup {w}]]

\* The endpoint: manager.connect(websocket)
Connect(w) ==
    /\ endpoint[w] = "new"
    /\ peer[w] = "open"
    /\ active_connections' = Append(active_connections, w)
    /\ endpoint' = [endpoint EXCEPT ![w] = "receiving"]
    /\ UNCHANGED <<peer, sim_loop, pipeVars, trainVars, fleetVars, proxyVars>>

\* The client of w goes away.
PeerCloses(w) ==
    /\ endpoint[w] = "receiving"
    /\ peer[w] = "open"
    /\ peer' = [peer EXCEPT ![w] = "gone"]
    /\ UNCHANGED <<active_connections, endpoint, sim_loop, pipeVars, trainVars, fleetVars, proxyVars>>

\* The endpoint: receive_text() raises WebSocketDisconnect and the handler
\* calls manager.disconnect(websocket); a ValueError leaves the handler.
EndpointDisconnect(w) ==
    /\ endpoint[w] = "receiving"
    /\ peer[w] = "gone"
    /\ LET gone == disconnect(active_connections, w)
       IN  /\ active_connections' = gone.conns
           /\ endpoint' = [endpoint EXCEPT ![w] = IF gone.raised THEN "failed" ELSE "closed"]
    /\ UNCHANGED <<peer, sim_loop, pipeVars, trainVars, fleetVars, proxyVars>>

\* run_simulation_loop(), from the end of asyncio.sleep(1) to the next
\* await that can suspend: tick(), and if there is data and there are
\* connections, the copy of the list and the first send of broadcast().
LoopTick ==
    /\ sim_loop.pc = "sleeping"
    /\ TickStep({NoSpawn, [roll |-> TRUE, direction |-> 1, speed |-> 28000]}, {2500}, {0})
    /\ IF payloads' = <<>> \/ active_connections = <<>>
       THEN /\ sim_loop' = SleepingLoop
            /\ UNCHANGED active_connections
       ELSE LET lp == [pc |-> "broadcast", snapshot |-> active_connections,
                       next |-> 1, failed |-> {}]
            IN  \E send_raised \in SendMayRaise(active_connections[1]) :
                    LET res == BroadcastPass(active_connections, lp, send_raised)
                    IN  /\ active_connections' = res.conns
                        /\ sim_loop' = res.loop
    /\ UNCHANGED <<endpoint, peer, pipeVars, trainVars, proxyVars>>

\* broadcast() resumes after a send and makes the next one.
LoopSend ==
    /\ sim_loop.pc = "broadcast"
    /\ \E send_raised \in SendMayRaise(sim_loop.snapshot[sim_loop.next]) :
          LET res == BroadcastPass(active_connections, sim_loop, send_raised)
          IN  /\ active_connections' = res.conns
              /\ sim_loop' = res.loop
    /\ UNCHANGED <<endpoint, peer, pipeVars, trainVars, fleetVars, proxyVars>>

IdleNet ==
    /\ active_connections = <<>>
    /\ endpoint = [w \in Sockets |-> "new"]
    /\ peer = [w \in Sockets |-> "open"]
    /\ sim_loop = SleepingLoop

---------------------------------------------------------------------------
\* main.py: the proxy endpoint /ws/live-trains.  Each session reads the
\* messages of the upstream publisher in the order they were sent, enriches
\* each with process_payload() over the shared active_train_cache and sends
\* the result to its frontend.  A session gives way to the others where it
\* awaits the sensor, the store or the frontend.

MaxSessions == 2

Sessions == 1..MaxSessions

\* The upstream publisher stops after MaxFeed messages.
MaxFeed == 2

\* asyncio.sleep(1): a second between two ticks, in tenths of a second
LoopDelta == 10

\* The noise the publisher's trains draw, and what the store does in the
\* lookups of the sessions: a train due, or an error.
RelayNoise == {0}

RelayOutcomes == {"match", "train_query_error"}

\* The journey id of the n-th train of the publisher.
JourneyName(n) == "J" \o ToString(n)

\* The spawn draws of the publisher: a train is put on the empty track, in
\* either direction, and has the track to itself.
RelayDraws(fleet) ==
    IF fleet = <<>> THEN [roll : {TRUE}, direction : {1, -1}, speed : {28000}]
    ELSE {NoSpawn}

\* run_simulation_loop() as the publisher of the feed: tick(), and what it
\* returns, if anything, goes out as one message.
Publish ==
    /\ Len(feed) < MaxFeed
    /\ sim_loop.pc = "sleeping"
    /\ \E draw \in RelayDraws(active_trains), n \in RelayNoise :
          LET r == tick(active_trains, JourneyName(next_journey), draw, LoopDelta, n)
          IN  /\ payloads' = r.payloads
              /\ active_trains' = r.active_trains
              /\ next_journey' = IF r.spawned THEN next_journey + 1 ELSE next_journey
              /\ feed' = IF r.payloads = <<>> THEN feed
                         ELSE Append(feed, [trains |-> r.payloads])
    /\ UNCHANGED <<proxy, pipeVars, trainVars, netVars>>

\* A session: where its handler stands, how many messages of the feed it
\* has received, the list being processed and the train reached in it, the
\* direction_status worked out before the lookup it awaits, the records
\* collected, and whether its receive has failed.
NewSession ==
    [pc |-> "new", cursor |-> 0, train_list |-> <<>>, i |-> 1, held |-> "",
     out |-> <<>>, recv_failed |-> FALSE]

\* The journey a session is looking up, NoJourney if it is not in a lookup.
LookingUp(sess) ==
    IF sess.pc = "lookup" THEN sess.train_list[sess.i].journeyId ELSE NoJourney

\* process_payload() from train i of the list up to the next await that
\* suspends: trains without a journeyId are skipped, cached ones are
\* processed, and the first one not in the cache has its direction worked
\* out and its lookup started; past the last train the function returns
\* and the send to the frontend is next.
RECURSIVE RunToAwait(_, _)
RunToAwait(cache, sess) ==
    IF sess.i > Len(sess.train_list)
    THEN [cache |-> cache, sess |-> [sess EXCEPT !.pc = "sending"]]
    ELSE LET train == sess.train_list[sess.i]
         IN  IF HasNoJourneyId(train)
             THEN RunToAwait(cache, [sess EXCEPT !.i = @ + 1])
             ELSE IF NotInCache(cache, train.journeyId)
             THEN [cache |-> cache,
                   sess |-> [sess EXCEPT
                               !.pc = "lookup",
                               !.held = determine_direction(cache, train.journeyId,
                                           train.headLinePosition, train.headLinePosition,
                                           train.tailLinePosition)]]
             ELSE LET run == ProcessTrain([StartRun(cache) EXCEPT !.out = sess.out],
                                          train, "match")
                  IN  RunToAwait(run.cache, [sess EXCEPT !.i = @ + 1, !.out = run.out])

\* The locals of a pass of the receive loop, dropped when the pass is over.
PassOver(sess, pc) == [sess EXCEPT !.pc = pc, !.train_list = <<>>, !.i = 1, !.out = <<>>]

\* The handler of a failed receive carries on with the next receive.
RecvFailureGoesOn(sess) == [sess EXCEPT !.recv_failed = TRUE]

\* except Exception: break.  The loop is left and the handler returns.
RecvFailure(sess) == [sess EXCEPT !.pc = "ended", !.recv_failed = TRUE]

\* websocket.accept() and websockets.connect(SENSOR_URL): the session
\* receives what the publisher sends from now on; if the sensor cannot be
\* reached, except Exception closes the websocket.
ProxyOpen(s) ==
    /\ proxy[s].pc = "new"
    /\ \E connected \in BOOLEAN :
          proxy' = [proxy EXCEPT ![s] =
                       IF connected
                       THEN [@ EXCEPT !.pc = "receiving", !.cursor = Len(feed)]
                       ELSE [@ EXCEPT !.pc = "ended"]]
    /\ UNCHANGED <<feed, pipeVars, trainVars, fleetVars, netVars>>

\* sensor_ws.recv() and json.loads() give the next message, and
\* process_payload() runs up to its first await that suspends.
ProxyRecv(s) ==
    /\ proxy[s].pc = "receiving"
    /\ proxy[s].cursor < Len(feed)
    /\ LET raw_json == feed[proxy[s].cursor + 1]
           r == RunToAwait(active_train_cache,
                           [proxy[s] EXCEPT !.cursor = @ + 1,
                                            !.train_list = Get(raw_json, "trains", <<>>),
                                            !.i = 1, !.held = "", !.out = <<>>])
       IN  /\ active_train_cache' = r.cache
           /\ proxy' = [proxy EXCEPT ![s] = r.sess]
    /\ UNCHANGED <<feed, raw_payload, response, resolver_log, trainVars, fleetVars, netVars>>

\* sensor_ws.recv() or json.loads() raises.
ProxyRecvFails(s) ==
    /\ proxy[s].pc = "receiving"
    /\ proxy' = [proxy EXCEPT ![s] = RecvFailure(@)]
    /\ UNCHANGED <<feed, pipeVars, trainVars, fleetVars, netVars>>

\* get_train_details_from_db() returns to the session that awaits it: the
\* entry is assigned, the record appended, and the loop goes on to its next
\* await.  An exception out of the lookup would leave process_payload()
\* and end the session.
ProxyLookupReturns(s) ==
    /\ proxy[s].pc = "lookup"
    /\ \E outcome \in RelayOutcomes :
          LET sess == proxy[s]
              train == sess.train_list[sess.i]
              j_id == train.journeyId
              res == get_train_details_from_db(outcome)
              entry == NewEntry(res.ret, train, train.headLinePosition, sess.held)
              cache == [k \in DOMAIN active_train_cache \cup {j_id} |->
                           IF k = j_id THEN entry ELSE active_train_cache[k]]
              r == RunToAwait(cache,
                              [sess EXCEPT !.i = @ + 1, !.held = "",
                                           !.out = Append(@, EnrichedTrain(entry, train,
                                                                           sess.held))])
          IN  IF res.exc
              THEN /\ proxy' = [proxy EXCEPT ![s] = PassOver(@, "ended")]
                   /\ UNCHANGED active_train_cache
              ELSE /\ active_train_cache' = r.cache
                   /\ proxy' = [proxy EXCEPT ![s] = r.sess]
    /\ UNCHANGED <<feed, raw_payload, response, resolver_log, trainVars, fleetVars, netVars>>

\* websocket.send_json(final_response): the frontend has the records, or
\* it is gone and the exception ends the session.
ProxySend(s) ==
    /\ proxy[s].pc = "sending"
    /\ \E sent \in BOOLEAN :
          proxy' = [proxy EXCEPT ![s] =
                       IF sent THEN PassOver(@, "receiving") ELSE PassOver(@, "ended")]
    /\ UNCHANGED <<feed, pipeVars, trainVars, fleetVars, netVars>>

IdleProxy ==
    /\ proxy = [s \in Sessions |-> NewSession]
    /\ feed = <<>>

InitProxy == IdlePipeline /\ IdleTrain /\ IdleFleet /\ IdleNet /\ IdleProxy

NextProxy ==
    \/ Publish
    \/ \E s \in Sessions : ProxyOpen(s)
    \/ \E s \in Sessions : ProxyRecv(s)
    \/ \E s \in Sessions : ProxyRecvFails(s)
    \/ \E s \in Sessions : ProxyLookupReturns(s)
    \/ \E s \in Sessions : ProxySend(s)

SpecProxy == InitProxy /\ [][NextProxy]_vars

InitNet == IdlePipeline /\ IdleTrain /\ IdleFleet /\ IdleNet /\ IdleProxy

NextNet ==
    \/ LoopTick
    \/ LoopSend
    \/ \E w \in Sockets : Connect(w)
    \/ \E w \in Sockets : PeerCloses(w)
    \/ \E w \in Sockets : EndpointDisconnect(w)

SpecNet == InitNet /\ [][NextNet]_vars

InitFleet == IdlePipeline /\ IdleTrain /\ IdleFleet /\ IdleNet /\ IdleProxy

NextFleet == Tick

SpecFleet == InitFleet /\ [][NextFleet]_vars

InitTrain ==
    /\ IdlePipeline
    /\ IdleFleet
    /\ IdleNet
    /\ IdleProxy
    /\ \E direction \in {1, -1}, speed \in TargetSpeeds :
          ncrtc_train = NCRTCTrain("T", direction, speed)
    /\ sensor_event = NoEvent

NextTrain == GetPayload

SpecTrain == InitTrain /\ [][NextTrain]_vars /\ WF_vars(GetPayload)

InitPipeline == IdlePipeline /\ IdleTrain /\ IdleFleet /\ IdleNet /\ IdleProxy

NextPipeline == ProcessPayload

SpecPipeline == InitPipeline /\ [][NextPipeline]_vars

---------------------------------------------------------------------------
\* Properties of the enrichment pipeline

TrainsOf(raw) == Get(raw, "trains", <<>>)

WithJourney(train_list) == SelectSeq(train_list, LAMBDA t : t.journeyId # NoJourney)

LookupsOf(log, j_id) == SelectSeq(log, LAMBDA c : c.journey = j_id)

EventsOf(train_list, j_id) == SelectSeq(train_list, LAMBDA t : t.journeyId = j_id)

\* C1: in a process_payload() call that overlaps no other, a journey id that
\* is not in active_train_cache when the call starts is looked up exactly
\* once, for the first event that carries it, however many events of the
\* batch carry it; a journey id already in the cache is not looked up.
C1_OneLookupPerJourney ==
    [][\A j \in JourneyIds :
          LET carried == EventsOf(TrainsOf(raw_payload'), j)
              calls == LookupsOf(resolver_log', j)
          IN  IF j \notin DOMAIN active_train_cache /\ carried # <<>>
              THEN /\ Len(calls) = 1
                   /\ calls[1].current_km = CurrentKm(carried[1].headLinePosition)
              ELSE calls = <<>>]_vars

\* C1 witness: a batch carried J1 twice and J1 was looked up once.
C1_Witness ==
    /\ Len(EventsOf(TrainsOf(raw_payload), "J1")) = 2
    /\ Len(LookupsOf(resolver_log, "J1")) = 1

\* C2: whatever the store does, process_payload() returns; a train whose
\* first-sighting lookup met a store error still has its record in the
\* returned list, carrying the sentinel identity, and every call, also after
\* such a failure, returns one record for each event with a journey id.
C2_StoreFailureIsAbsorbed ==
    /\ response.status # "raised"
    /\ Len(response.active_trains) = Len(WithJourney(TrainsOf(raw_payload)))
    /\ \A i \in DOMAIN resolver_log :
          resolver_log[i].outcome \in StoreErrors =>
             /\ \E k \in DOMAIN response.active_trains :
                   response.active_trains[k].journey_id = resolver_log[i].journey
             /\ \A k \in DOMAIN response.active_trains :
                   response.active_trains[k].journey_id = resolver_log[i].journey =>
                      /\ response.active_trains[k].train_id = "N/A"
                      /\ response.active_trains[k].train_name = "N/A"
                      /\ response.active_trains[k].live_status.next_station = "N/A"

\* C2 witness: a call whose lookup met a store error returned two records,
\* after an earlier call had cached the other journey.
C2_Witness ==
    /\ response.status = "returned"
    /\ Len(response.active_trains) = 2
    /\ Len(resolver_log) = 1
    /\ resolver_log[1].outcome = "pool_error"
    /\ DOMAIN active_train_cache = JourneyIds

\* The classification as the specification words it.
DirectionReference(cache, j_id, current, head, tail) ==
    CASE head > tail + 10 * Meter -> "FORWARD"
      [] head <= tail + 10 * Meter /\ head < tail - 10 * Meter -> "BACKWARD"
      [] OTHER ->
            IF j_id \in DOMAIN cache
            THEN CASE 2 * current > 2 * cache[j_id].last_pos + Meter -> "FORWARD"
                   [] 2 * current < 2 * cache[j_id].last_pos - Meter -> "BACKWARD"
                   [] OTHER -> "STOP"
            ELSE "STOP"

ProbeHeads == {1000 * Meter, 1002 * Meter}

\* Positions around 1000 m, 1000.5 m and 1002 m, one unit either side of each
\* margin included.
ProbePositions ==
    { 1000 * Meter + d : d \in { -(Meter \div 2) - 1, -(Meter \div 2), 0, Meter \div 2,
                                  Meter \div 2 + 1, Meter, 2 * Meter + Meter \div 2 + 1 } }

ProbeTailOffsets == { -10 * Meter - 1, -10 * Meter, 0, 10 * Meter, 10 * Meter + 1 }

\* C3: for every journey id (cached or not), current position, head and
\* tail, and in every state of the cache, determine_direction returns what
\* the reference classification returns.
C3_DirectionMatchesReference ==
    \A j \in JourneyIds \cup {"J3"} : \A current \in ProbePositions :
        \A head \in ProbeHeads : \A off \in ProbeTailOffsets :
            determine_direction(active_train_cache, j, current, head, head + off)
                = DirectionReference(active_train_cache, j, current, head, head + off)

\* C3 witness: with J1 cached at 1000 m and head level with tail, 1002 m is
\* FORWARD, 998 m is BACKWARD and 1000.2 m is STOP; the uncached J3 is STOP.
C3_Witness ==
    /\ "J1" \in DOMAIN active_train_cache
    /\ active_train_cache["J1"].last_pos = 1000 * Meter
    /\ determine_direction(active_train_cache, "J1", 1002 * Meter, 1002 * Meter, 1002 * Meter)
          = "FORWARD"
    /\ determine_direction(active_train_cache, "J1", 998 * Meter, 998 * Meter, 998 * Meter)
          = "BACKWARD"
    /\ determine_direction(active_train_cache, "J1", 1000 * Meter + Meter \div 5,
                           1000 * Meter + Meter \div 5, 1000 * Meter + Meter \div 5) = "STOP"
    /\ determine_direction(active_train_cache, "J3", 1002 * Meter, 1002 * Meter, 1002 * Meter)
          = "STOP"

\* The returned list against the batch: one record for each event that has
\* a journey id, in the order of the batch.
RecordsFollowBatch ==
    LET kept == WithJourney(TrainsOf(raw_payload))
    IN  /\ response.status = "returned"
        /\ Len(response.active_trains) = Len(kept)
        /\ \A k \in DOMAIN kept :
              /\ response.active_trains[k].journey_id = kept[k].journeyId
              /\ response.active_trains[k].visualization.position_meters
                    = kept[k].headLinePosition
              /\ response.active_trains[k].live_status.speed = kept[k].speed

\* C9: process_payload() returns one record for each event with a non-empty
\* journeyId, in input order, and none for an event without one; such an
\* event is never looked up and never enters the cache; a call whose list
\* is empty, missing or holds no event with a journeyId returns without a
\* lookup and leaves the cache as it was.
C9_OneRecordPerIdentifiedEvent ==
    [][/\ RecordsFollowBatch'
       /\ NoJourney \notin DOMAIN active_train_cache'
       /\ \A i \in DOMAIN resolver_log' : resolver_log'[i].journey # NoJourney
       /\ WithJourney(TrainsOf(raw_payload')) = <<>> =>
             /\ response'.active_trains = <<>>
             /\ resolver_log' = <<>>
             /\ active_train_cache' = active_train_cache]_vars

\* C9 witness: a batch of an event without a journeyId followed by one for
\* J1 returned the single record of J1.
C9_Witness ==
    /\ Len(TrainsOf(raw_payload)) = 2
    /\ raw_payload.trains[1].journeyId = NoJourney
    /\ raw_payload.trains[2].journeyId = "J1"
    /\ Len(response.active_trains) = 1
    /\ response.active_trains[1].journey_id = "J1"

\* C16: over process_payload() calls that do not overlap, an entry of the
\* cache is never removed, and its train_no, name, scheduled_station,
\* train_length and coach_count stay as they were created, last_pos and
\* direction being the only fields a call changes; a journey that has an
\* entry, the sentinel identity of a failed lookup included, is not looked
\* up again; an entry a call creates has the length of the journey's first
\* event of the batch and coach_count 6 if that length is above 50 m, 3
\* otherwise.
C16_IdentityIsFrozen ==
    [][/\ DOMAIN active_train_cache \subseteq DOMAIN active_train_cache'
       /\ \A j \in DOMAIN active_train_cache :
             /\ active_train_cache'[j] =
                    [active_train_cache[j] EXCEPT
                        !.last_pos = active_train_cache'[j].last_pos,
                        !.direction = active_train_cache'[j].direction]
             /\ LookupsOf(resolver_log', j) = <<>>
       /\ \A j \in DOMAIN active_train_cache' \ DOMAIN active_train_cache :
             LET first == EventsOf(TrainsOf(raw_payload'), j)[1]
             IN  /\ active_train_cache'[j].train_length = first.length
                 /\ active_train_cache'[j].coach_count
                       = IF first.length > 50 * Meter THEN 6 ELSE 3]_vars

\* C16 witness: J1 was first seen at 1002 m with a length of exactly 50 m
\* and a failed lookup; a later call has moved it to 1000 m with an event
\* of another length, and the entry has the sentinel identity, the first
\* length and 3 coaches still, no lookup made.
C16_Witness ==
    /\ "J1" \in DOMAIN active_train_cache
    /\ active_train_cache["J1"].train_no = "N/A"
    /\ active_train_cache["J1"].train_length = 50 * Meter
    /\ active_train_cache["J1"].coach_count = 3
    /\ active_train_cache["J1"].last_pos = 1000 * Meter
    /\ EventsOf(TrainsOf(raw_payload), "J1") # <<>>
    /\ resolver_log = <<>>

\* The records of the returned list that belong to a journey.
RecordsOf(records, j_id) == SelectSeq(records, LAMBDA r : r.journey_id = j_id)

\* The position the k-th event of a journey in a batch is to be compared
\* with: the head of the journey's event before it in the batch, or for the
\* first one the last_pos the cache held when the call began.
PreviousPosition(cache, events, j_id, k) ==
    IF k > 1 THEN events[k - 1].headLinePosition ELSE cache[j_id].last_pos

\* C17: in a process_payload() call, the direction in the record of an
\* event whose journey is already cached (from an earlier call, or from an
\* earlier event of the batch) is the classification of the event against
\* the position of the journey's previously processed event; when the call
\* returns, the journey's entry holds the head position of its last event
\* as last_pos and the direction of its last record.
C17_DirectionAgainstPreviousEvent ==
    [][\A j \in JourneyIds :
          LET events == EventsOf(TrainsOf(raw_payload'), j)
              records == RecordsOf(response'.active_trains, j)
          IN  events # <<>> =>
                /\ Len(records) = Len(events)
                /\ \A k \in DOMAIN events :
                      (k > 1 \/ j \in DOMAIN active_train_cache) =>
                         records[k].live_status.direction =
                            DirectionReference(
                               [x \in {j} |->
                                   [last_pos |-> PreviousPosition(active_train_cache,
                                                                  events, j, k)]],
                               j, events[k].headLinePosition,
                               events[k].headLinePosition, events[k].tailLinePosition)
                /\ active_train_cache'[j].last_pos = events[Len(events)].headLinePosition
                /\ active_train_cache'[j].direction
                      = records[Len(records)].live_status.direction]_vars

\* C17 witness: a batch of J1 at 1002 m and then at 1000 m, J1 cached
\* before the call: the second record is BACKWARD, and so is the entry,
\* which holds 1000 m.
C17_Witness ==
    /\ Len(EventsOf(TrainsOf(raw_payload), "J1")) = 2
    /\ resolver_log = <<>>
    /\ Len(response.active_trains) = 2
    /\ response.active_trains[1].live_status.direction # "BACKWARD"
    /\ response.active_trains[2].live_status.direction = "BACKWARD"
    /\ active_train_cache["J1"].direction = "BACKWARD"
    /\ active_train_cache["J1"].last_pos = 1000 * Meter

---------------------------------------------------------------------------
\* Properties of the simulator

JourneysIn(fleet) == {fleet[i].journey_id : i \in DOMAIN fleet}

EventsFor(events, journey_id) == SelectSeq(events, LAMBDA e : e.journeyId = journey_id)

\* C4: whatever ticks have run, the fleet holds at most 4 trains, the
\* finished ones not yet removed included, and a tick adds at most one
\* train to it.
C4_FleetAtMostFour ==
    [][/\ Len(active_trains') <= 4
       /\ Cardinality(JourneysIn(active_trains') \ JourneysIn(active_trains)) <= 1
       /\ next_journey' <= next_journey + 1]_vars

\* C4 witness: four trains in the fleet, one of them finished, with journey
\* ids left to hand out.
C4_Witness ==
    /\ Len(active_trains) = 4
    /\ \E i \in DOMAIN active_trains : active_trains[i].is_finished
    /\ next_journey <= MaxJourneys

\* C5: a train advanced again and again, by a positive elapsed time each
\* time and whatever the noise, is finished in the end: at or past the end
\* of the track if its direction is 1, at or before 0 if it is -1.
C5_TrainFinishes ==
    <>(/\ ncrtc_train.is_finished
       /\ ncrtc_train.direction = 1 => ncrtc_train.current_pos_meters >= TrackMm
       /\ ncrtc_train.direction = -1 => ncrtc_train.current_pos_meters <= 0)

\* C5 witness: a train of direction -1 has finished below 0, after a step
\* with the noise against its travel.
C5_Witness ==
    /\ ncrtc_train.is_finished
    /\ ncrtc_train.direction = -1
    /\ ncrtc_train.current_pos_meters < 0
    /\ sensor_event.speed < Abs(ncrtc_train.current_speed)

EventPositions(e) ==
    {e.leftOpticalPosition, e.rightOpticalPosition, e.headOpticalPosition,
     e.tailOpticalPosition, e.headLinePosition, e.tailLinePosition, e.linePosition}

\* C6: in every event get_payload() returns, wherever the train is, the
\* left optical position is the smaller and the right the larger of head
\* and tail, and the optical positions, the line positions of head and tail
\* and the line position all lie from 0 to the track length.
C6_EventWithinTrack ==
    sensor_event # NoEvent =>
        /\ sensor_event.leftOpticalPosition <= sensor_event.rightOpticalPosition
        /\ sensor_event.leftOpticalPosition
              = Min(sensor_event.headOpticalPosition, sensor_event.tailOpticalPosition)
        /\ sensor_event.rightOpticalPosition
              = Max(sensor_event.headOpticalPosition, sensor_event.tailOpticalPosition)
        /\ \A x \in EventPositions(sensor_event) : 0 <= x /\ x <= TRACK_LENGTH_METERS * Meter

\* C6 witness: an event of a train whose position is past the end of the
\* track by more than its length, head and tail both at the track end.
C6_Witness ==
    /\ sensor_event # NoEvent
    /\ ncrtc_train.current_pos_meters > TrackMm + 200000
    /\ sensor_event.headLinePosition = TRACK_LENGTH_METERS * Meter
    /\ sensor_event.tailLinePosition = TRACK_LENGTH_METERS * Meter

Unfinished(fleet) == {fleet[i].journey_id : i \in {k \in DOMAIN fleet : ~fleet[k].is_finished}}

Finished(fleet) == {fleet[i].journey_id : i \in {k \in DOMAIN fleet : fleet[k].is_finished}}

\* C10 as claimed: a train that a tick finishes has its event in what the
\* tick returns and is out of the fleet when the tick returns.
C10_RemovedInTheSameTick ==
    [][\A j \in Unfinished(active_trains) \cup
                (JourneysIn(active_trains') \ JourneysIn(active_trains)) :
          /\ Len(EventsFor(payloads', j)) = 1
          /\ j \notin Finished(active_trains')]_vars

\* C10 as amended: a train that a tick finishes has its event in what the
\* tick returns and is still in the fleet, finished, when the tick returns;
\* the next tick removes it and returns no event for it.
C10_RemovedInTheNextTick ==
    [][/\ \A j \in Unfinished(active_trains) \cup
                   (JourneysIn(active_trains') \ JourneysIn(active_trains)) :
             /\ Len(EventsFor(payloads', j)) = 1
             /\ j \in JourneysIn(active_trains')
       /\ \A j \in Finished(active_trains) :
             /\ EventsFor(payloads', j) = <<>>
             /\ j \notin JourneysIn(active_trains')]_vars

\* C10 witness: a tick has returned the event of a train it finished, the
\* head at the end of the track, and the train is in the fleet.
C10_Witness ==
    \E i \in DOMAIN active_trains :
        /\ active_trains[i].is_finished
        /\ active_trains[i].direction = 1
        /\ \E k \in DOMAIN payloads :
              /\ payloads[k].journeyId = active_trains[i].journey_id
              /\ payloads[k].headLinePosition = TRACK_LENGTH_METERS * Meter

\* C15: a tick returns exactly one event for each train that was not
\* finished when the tick began, a train it spawned included, and no other
\* event; a train that was finished when the tick began gives no event, is
\* out of the fleet when the tick returns and never comes back, a new train
\* taking a journey id not handed out before; a train that stays in the
\* fleet does not go from finished to not finished.
C15_TrainLifecycle ==
    [][LET spawned == JourneysIn(active_trains') \ JourneysIn(active_trains)
           due == Unfinished(active_trains) \cup spawned
       IN  /\ \A j \in due : Len(EventsFor(payloads', j)) = 1
           /\ Len(payloads') = Cardinality(due)
           /\ \A j \in Finished(active_trains) :
                 /\ EventsFor(payloads', j) = <<>>
                 /\ j \notin JourneysIn(active_trains')
           /\ spawned \subseteq {next_journey}
           /\ \A j \in JourneysIn(active_trains) : j < next_journey
           /\ Finished(active_trains) \cap Unfinished(active_trains') = {}]_vars

\* C15 witness: a tick has removed a train, spawned one and returned the
\* events of the new train and of two others, one of which it finished.
C15_Witness ==
    /\ Len(payloads) = 3
    /\ Len(active_trains) = 3
    /\ next_journey > 4
    /\ \E i \in DOMAIN active_trains :
          /\ active_trains[i].journey_id = next_journey - 1
          /\ active_trains[i].current_speed = 0
          /\ ~active_trains[i].is_finished
    /\ \E i \in DOMAIN active_trains :
          /\ active_trains[i].is_finished
          /\ EventsFor(payloads, active_trains[i].journey_id) # <<>>

\* C11: the position of a train is within the track in every state, from
\* its construction through every advance, the one that finishes it
\* included.
C11_PositionWithinTrack ==
    /\ 0 <= ncrtc_train.current_pos_meters
    /\ ncrtc_train.current_pos_meters <= TrackMm

\* C12: after every advance the commanded speed is no larger in magnitude
\* than the target speed.
C12_SpeedWithinTarget ==
    Abs(ncrtc_train.current_speed) <= Abs(ncrtc_train.target_speed)

---------------------------------------------------------------------------
\* Properties of the broadcast

\* C7: when a broadcast is over, it has tried the send to every subscriber
\* that was in the list when it began, and every subscriber whose send
\* failed is out of the list, however the endpoints' disconnect handling
\* ran between its sends.
C7_BroadcastReachesEverySubscriber ==
    sim_loop.pc \in {"sleeping", "dead"} =>
        /\ sim_loop.next > Len(sim_loop.snapshot)
        /\ \A w \in sim_loop.failed : w \notin Range(active_connections)

\* C8: run_simulation_loop never ends: no exception leaves it, whatever the
\* subscribers do between its steps.
C8_DriverNeverEnds == sim_loop.pc # "dead"

\* C18: disconnect() is only ever called for a websocket that is in
\* active_connections, so that list.remove() never raises, neither in the
\* except branch of broadcast() nor in an endpoint handler.
C18_DisconnectNeverRaises ==
    /\ sim_loop.pc # "dead"
    /\ \A w \in Sockets : endpoint[w] # "failed"

---------------------------------------------------------------------------
\* Properties of the proxy sessions

\* C13: the step in which a session's receive fails ends that session and
\* changes nothing else: not another session, not the cache, not the feed,
\* the fleet or the driver; and a session whose receive has failed takes no
\* further step, so that nothing more is sent to its frontend.
C13_ReceiveFailureEndsOneSession ==
    [][\A s \in Sessions :
          /\ proxy[s].recv_failed => proxy'[s] = proxy[s]
          /\ (~proxy[s].recv_failed /\ proxy'[s].recv_failed) =>
                /\ proxy'[s].pc = "ended"
                /\ \A o \in Sessions \ {s} : proxy'[o] = proxy[o]
                /\ active_train_cache' = active_train_cache
                /\ feed' = feed
                /\ active_trains' = active_trains
                /\ sim_loop' = sim_loop
                /\ sim_loop.pc # "dead"]_vars

\* C13 witness: session 1 has ended on a failed receive before the last
\* message of the feed reached it; the publisher has sent the whole feed
\* and session 2 is about to send the records of the last message, the
\* journey in the cache.
C13_Witness ==
    /\ proxy[1].recv_failed
    /\ proxy[1].pc = "ended"
    /\ proxy[1].cursor < Len(feed)
    /\ Len(feed) = MaxFeed
    /\ proxy[2].pc = "sending"
    /\ proxy[2].cursor = Len(feed)
    /\ proxy[2].out # <<>>
    /\ active_train_cache # <<>>

\* The sessions that await the lookup of a journey.
InLookup(j_id) == {s \in Sessions : LookingUp(proxy[s]) = j_id}

\* C14: a journey is looked up by one session at most, and while its lookup
\* is in flight it has no entry in the cache: no second resolver call is
\* made for it, and no entry of it is there for a resolver result to
\* replace.
C14_OneLookupInFlight ==
    \A j \in {JourneyName(n) : n \in 1..MaxFeed} :
        /\ Cardinality(InLookup(j)) <= 1
        /\ InLookup(j) # {} => j \notin DOMAIN active_train_cache

\* The direction of travel of the publisher's train with the journey id.
TravelOf(j_id) ==
    LET i == CHOOSE k \in DOMAIN active_trains : active_trains[k].journey_id = j_id
    IN  active_trains[i].direction

\* C19: no record a session has collected reports the direction opposite to
\* the travel of its train: BACKWARD for a train of direction 1, FORWARD
\* for one of direction -1.
C19_NeverTheOppositeDirection ==
    \A s \in Sessions : \A k \in DOMAIN proxy[s].out :
        LET record == proxy[s].out[k]
            travel == TravelOf(record.journey_id)
        IN  /\ travel = 1 => record.live_status.direction # "BACKWARD"
            /\ travel = -1 => record.live_status.direction # "FORWARD"

====
